---- MODULE Spec2Model ----
(***************************************************************************)
(* Model of the imcraft image algebra (src/imcraft/src/lib.rs).           *)
(*                                                                         *)
(* An image is a tree of Uniform, BufImage, Transform and Join nodes; the  *)
(* tree is built by the consuming builder calls transform / translate /    *)
(* join and sampled by get and render.                                     *)
(*                                                                         *)
(* f32 values are modelled as exact rationals <<n, d>> in lowest terms     *)
(* with d > 0.  The one non-finite value a division by zero produces is    *)
(* <<0, 0>> (NaN); it propagates through arithmetic and compares false,    *)
(* as in IEEE 754.  Rounding error of f32 arithmetic is not modelled.      *)
(***************************************************************************)
EXTENDS Integers, Sequences, FiniteSets, TLC

\* ---------------------------------------------------------------- bounds

\* Deepest image tree the builder actions construct (a leaf has depth 0).
MaxDepth == 2

\* Sampling coordinates range over the halves in [-1, MaxCoord].
MaxCoord == 3

\* ------------------------------------------------------------ f32 values

Abs(n) == IF n < 0 THEN -n ELSE n

RECURSIVE GCD(_, _)
GCD(a, b) == IF b = 0 THEN a ELSE GCD(b, a % b)

NaN == <<0, 0>>

IsNaN(p) == p[2] = 0

\* The f32 with value n / d; a zero divisor gives the non-finite value.
F32(n, d) ==
    IF d = 0 THEN NaN
    ELSE LET g == GCD(Abs(n), Abs(d))
             s == IF d < 0 THEN -1 ELSE 1
         IN  <<(s * n) \div g, (s * d) \div g>>

Zero == <<0, 1>>
One == <<1, 1>>

Add(p, q) ==
    IF IsNaN(p) \/ IsNaN(q) THEN NaN
    ELSE F32(p[1] * q[2] + q[1] * p[2], p[2] * q[2])

Sub(p, q) ==
    IF IsNaN(p) \/ IsNaN(q) THEN NaN
    ELSE F32(p[1] * q[2] - q[1] * p[2], p[2] * q[2])

Mul(p, q) ==
    IF IsNaN(p) \/ IsNaN(q) THEN NaN
    ELSE F32(p[1] * q[1], p[2] * q[2])

Div(p, q) ==
    IF IsNaN(p) \/ IsNaN(q) THEN NaN
    ELSE F32(p[1] * q[2], p[2] * q[1])

Lt(p, q) == ~IsNaN(p) /\ ~IsNaN(q) /\ p[1] * q[2] < q[1] * p[2]

\* f32::round: the nearest integer, halves away from zero.
Round(p) ==
    IF p[1] >= 0 THEN (2 * p[1] + p[2]) \div (2 * p[2])
    ELSE -((2 * (-p[1]) + p[2]) \div (2 * p[2]))

\* `as usize`: NaN becomes 0 and negative values saturate to 0.
AsUsize(p) ==
    IF IsNaN(p) THEN 0
    ELSE IF Round(p) < 0 THEN 0 ELSE Round(p)

\* `as u8` of an f32: truncation toward zero, saturating to 0..255, NaN to 0.
AsU8(p) ==
    IF IsNaN(p) \/ p[1] < 0 THEN 0
    ELSE IF p[1] \div p[2] > 255 THEN 255
    ELSE p[1] \div p[2]

\* ----------------------------------------------------------------- Pixel

Pixel(r, g, b, a) == [r |-> r, g |-> g, b |-> b, a |-> a]

TransparentBlack == Pixel(Zero, Zero, Zero, Zero)

\* The outcome of a get that panicked (an index out of the data array).
Panic == [r |-> NaN, g |-> NaN, b |-> NaN, a |-> NaN, panic |-> TRUE]

\* ---------------------------------------------------------------- matrix

\* [[f32; 3]; 3] from integer entries, row by row.
Matrix(a, b, c, d, e, f, g, h, i) ==
    << <<F32(a, 1), F32(b, 1), F32(c, 1)>>,
       <<F32(d, 1), F32(e, 1), F32(f, 1)>>,
       <<F32(g, 1), F32(h, 1), F32(i, 1)>> >>

ZeroMatrix == Matrix(0, 0, 0, 0, 0, 0, 0, 0, 0)

\* matrix[i][j] with the source's 0-based indices.
At(matrix, i, j) == matrix[i + 1][j + 1]

\* adjoint with the sign of entry [0][1] reversed.
adjointSignSlip(matrix) ==
    LET m(i, j) == At(matrix, i, j)
    IN  << << Sub(Mul(m(1, 1), m(2, 2)), Mul(m(2, 1), m(1, 2))),
              Sub(Mul(m(0, 1), m(2, 2)), Mul(m(0, 2), m(2, 1))),
              Sub(Mul(m(0, 1), m(1, 2)), Mul(m(1, 1), m(0, 2))) >>,
           << Sub(Mul(m(1, 2), m(2, 0)), Mul(m(2, 2), m(1, 0))),
              Sub(Mul(m(0, 0), m(2, 2)), Mul(m(0, 2), m(2, 0))),
              Sub(Mul(m(0, 2), m(1, 0)), Mul(m(1, 2), m(0, 0))) >>,
           << Sub(Mul(m(1, 0), m(2, 1)), Mul(m(2, 0), m(1, 1))),
              Sub(Mul(m(0, 1), m(2, 0)), Mul(m(0, 0), m(2, 1))),
              Sub(Mul(m(0, 0), m(1, 1)), Mul(m(1, 0), m(0, 1))) >> >>

adjoint(matrix) ==
    LET m(i, j) == At(matrix, i, j)
    IN  << << Sub(Mul(m(1, 1), m(2, 2)), Mul(m(2, 1), m(1, 2))),
              Sub(Mul(m(0, 2), m(2, 1)), Mul(m(0, 1), m(2, 2))),
              Sub(Mul(m(0, 1), m(1, 2)), Mul(m(1, 1), m(0, 2))) >>,
           << Sub(Mul(m(1, 2), m(2, 0)), Mul(m(2, 2), m(1, 0))),
              Sub(Mul(m(0, 0), m(2, 2)), Mul(m(0, 2), m(2, 0))),
              Sub(Mul(m(0, 2), m(1, 0)), Mul(m(1, 2), m(0, 0))) >>,
           << Sub(Mul(m(1, 0), m(2, 1)), Mul(m(2, 0), m(1, 1))),
              Sub(Mul(m(0, 1), m(2, 0)), Mul(m(0, 0), m(2, 1))),
              Sub(Mul(m(0, 0), m(1, 1)), Mul(m(1, 0), m(0, 1))) >> >>

determinant(matrix) ==
    LET adj == adjoint(matrix)
    IN  Add(Add(Mul(At(matrix, 0, 0), At(adj, 0, 0)),
                Mul(At(matrix, 0, 1), At(adj, 1, 0))),
            Mul(At(matrix, 0, 2), At(adj, 2, 0)))

\* invert without the test for a zero determinant.
invertUnguarded(matrix) ==
    LET adj == adjoint(matrix)
        det == determinant(matrix)
        q(i, j) == Div(At(adj, i, j), det)
    IN  << <<q(0, 0), q(0, 1), q(0, 2)>>,
           <<q(1, 0), q(1, 1), q(1, 2)>>,
           <<q(2, 0), q(2, 1), q(2, 2)>> >>

invert(matrix) ==
    LET adj == adjoint(matrix)
        det == determinant(matrix)
        q(i, j) == Div(At(adj, i, j), det)
    IN  IF det = Zero THEN ZeroMatrix
        ELSE << <<q(0, 0), q(0, 1), q(0, 2)>>,
                <<q(1, 0), q(1, 1), q(1, 2)>>,
                <<q(2, 0), q(2, 1), q(2, 2)>> >>

\* ----------------------------------------------------------------- nodes

Uniform(color) == [kind |-> "Uniform", color |-> color]

BufImage(data, width, height) ==
    [kind |-> "BufImage", data |-> data, width |-> width, height |-> height]

Transform(image, matrix) ==
    [kind |-> "Transform", image |-> image, matrix |-> matrix]

Join(image1, image2) ==
    [kind |-> "Join", image1 |-> image1, image2 |-> image2]

RECURSIVE Depth(_)
Depth(img) ==
    CASE img.kind = "Transform" -> 1 + Depth(img.image)
      [] img.kind = "Join" ->
            LET d1 == Depth(img.image1)
                d2 == Depth(img.image2)
            IN  1 + (IF d1 < d2 THEN d2 ELSE d1)
      [] OTHER -> 0

\* ------------------------------------------------------------------- get

UniformGet(img, x, y) == img.color

\* Transform::transform with y read in place of x in the first row.
TransformTransformSlip(img, x, y) ==
    LET m(i, j) == At(img.matrix, i, j)
        x2 == Add(Add(Mul(y, m(0, 0)), Mul(y, m(0, 1))), m(0, 2))
        y2 == Add(Add(Mul(x, m(1, 0)), Mul(y, m(1, 1))), m(1, 2))
    IN  <<x2, y2>>

\* Transform::transform: the stored matrix applied to (x, y, 1), two rows.
TransformTransform(img, x, y) ==
    LET m(i, j) == At(img.matrix, i, j)
        x2 == Add(Add(Mul(x, m(0, 0)), Mul(y, m(0, 1))), m(0, 2))
        y2 == Add(Add(Mul(x, m(1, 0)), Mul(y, m(1, 1))), m(1, 2))
    IN  <<x2, y2>>

\* Join::get with the layers exchanged: image1 painted over image2.
JoinGetSwapped(px1, px2) ==
    IF px1 = Panic \/ px2 = Panic THEN Panic
    ELSE LET a == Add(px1.a, Mul(px2.a, Sub(One, px1.a)))
             blend(v1, v2) ==
                 Div(Add(Mul(v1, px1.a), Mul(Mul(v2, px2.a), Sub(One, px1.a))), a)
         IN  IF a = Zero THEN TransparentBlack
             ELSE Pixel(blend(px1.r, px2.r), blend(px1.g, px2.g),
                        blend(px1.b, px2.b), a)

\* Join::get with the bottom colour not weighted by the bottom alpha.
JoinGetUnweighted(px1, px2) ==
    IF px1 = Panic \/ px2 = Panic THEN Panic
    ELSE LET a == Add(px2.a, Mul(px1.a, Sub(One, px2.a)))
             blend(v1, v2) ==
                 Div(Add(Mul(v2, px2.a), Mul(v1, Sub(One, px2.a))), a)
         IN  IF a = Zero THEN TransparentBlack
             ELSE Pixel(blend(px1.r, px2.r), blend(px1.g, px2.g),
                        blend(px1.b, px2.b), a)

\* Join::get on the two sampled pixels; a panic of either get unwinds.
JoinGet(px1, px2) ==
    IF px1 = Panic \/ px2 = Panic THEN Panic
    ELSE LET a == Add(px2.a, Mul(px1.a, Sub(One, px2.a)))
             blend(v1, v2) ==
                 Div(Add(Mul(v2, px2.a), Mul(Mul(v1, px1.a), Sub(One, px2.a))), a)
         IN  IF a = Zero THEN TransparentBlack
             ELSE Pixel(blend(px1.r, px2.r), blend(px1.g, px2.g),
                        blend(px1.b, px2.b), a)

\* self.data[idx .. idx + 3] as a pixel; an index past the array panics.
DataPixel(data, idx) ==
    IF idx + 4 > Len(data) THEN Panic
    ELSE Pixel(F32(data[idx + 1], 255), F32(data[idx + 2], 255),
               F32(data[idx + 3], 255), F32(data[idx + 4], 255))

\* BufImage::get with the coordinates cast without round().
BufImageGetTruncating(img, x, y) ==
    IF Lt(x, Zero) \/ Lt(y, Zero) THEN TransparentBlack
    ELSE LET xu == x[1] \div x[2]
             yu == y[1] \div y[2]
         IN  IF xu >= img.width \/ yu >= img.height THEN TransparentBlack
             ELSE DataPixel(img.data, (yu * img.width + xu) * 4)

BufImageGet(img, x, y) ==
    IF Lt(x, Zero) \/ Lt(y, Zero) THEN TransparentBlack
    ELSE LET xu == AsUsize(x)
             yu == AsUsize(y)
         IN  IF xu >= img.width \/ yu >= img.height THEN TransparentBlack
             ELSE DataPixel(img.data, (yu * img.width + xu) * 4)

RECURSIVE ImageGet(_, _, _)
ImageGet(img, x, y) ==
    CASE img.kind = "Uniform" -> UniformGet(img, x, y)
      [] img.kind = "BufImage" -> BufImageGet(img, x, y)
      [] img.kind = "Transform" ->
            LET p == TransformTransform(img, x, y)
            IN  ImageGet(img.image, p[1], p[2])
      [] img.kind = "Join" ->
            JoinGet(ImageGet(img.image1, x, y), ImageGet(img.image2, x, y))

\* Image::render: width * height * 4 bytes, row-major, four per pixel; a
\* panic of any get unwinds out of render.
ImageRender(img, width, height) ==
    LET px(x, y) == ImageGet(img, F32(x, 1), F32(y, 1))
        u8(v) == AsU8(Mul(v, F32(255, 1)))
    IN  IF \E y \in 0..(height - 1), x \in 0..(width - 1) : px(x, y) = Panic
        THEN Panic
        ELSE [k \in 1..(width * height * 4) |->
                LET idx == ((k - 1) \div 4) * 4
                    x == ((k - 1) \div 4) % width
                    y == ((k - 1) \div 4) \div width
                    pixel == px(x, y)
                IN  CASE k - 1 = idx + 0 -> u8(pixel.r)
                      [] k - 1 = idx + 1 -> u8(pixel.g)
                      [] k - 1 = idx + 2 -> u8(pixel.b)
                      [] k - 1 = idx + 3 -> u8(pixel.a)]

\* -------------------------------------------------------------- builders

\* Image::transform storing the supplied matrix as it is.
ImageTransformForward(img, matrix) == Transform(img, matrix)

\* Image::transform stores the inverse of the supplied matrix.
ImageTransform(img, matrix) == Transform(img, invert(matrix))

\* Image::join with the receiver and the argument exchanged.
ImageJoinSwapped(img, other) == Join(other, img)

\* Image::join: the receiver is image1, the argument image2.
ImageJoin(img, other) == Join(img, other)

TranslateMatrix(x, y) ==
    << <<One, Zero, x>>, <<Zero, One, y>>, <<Zero, Zero, One>> >>

ImageTranslate(img, x, y) == ImageTransform(img, TranslateMatrix(x, y))

\* ---------------------------------------------------------------- inputs

Half == F32(1, 2)

\* Uniform colours: opaque blue, colour under alpha 0, half-transparent.
Colors ==
    { Pixel(Zero, Zero, One, One),
      Pixel(One, Zero, Zero, Zero),
      Pixel(Zero, One, Zero, Half) }

\* A decoded 3 x 2 RGBA8 raster, row-major.
RasterData ==
    << 255, 0, 0, 255,     0, 0, 0, 0,       0, 0, 255, 0,
       255, 255, 0, 255,   0, 255, 0, 85,    51, 102, 153, 204 >>

Raster == BufImage(RasterData, 3, 2)

\* A decoded 2 x 3 RGBA8 raster, row-major.
TallData ==
    << 0, 0, 0, 255,       255, 255, 255, 255,
       10, 20, 30, 40,     0, 0, 0, 0,
       255, 0, 255, 170,   1, 2, 3, 0 >>

Tall == BufImage(TallData, 2, 3)

Leaves == {Uniform(c) : c \in Colors} \cup {Raster}

\* Images handed to join as its argument.
JoinOperands == {Raster, Uniform(Pixel(Zero, One, Zero, Half))}

Identity == Matrix(1, 0, 0, 0, 1, 0, 0, 0, 1)

ScaleHalf == << <<Half, Zero, Zero>>, <<Zero, Half, Zero>>, <<Zero, Zero, One>> >>

\* Matrices handed to transform: identity, the scale by 1/2, a flip with a
\* shift, a singular matrix and a matrix whose last row is not (0, 0, 1).
Matrices ==
    { Identity, ScaleHalf,
      Matrix(1, 0, 0, 0, -1, 1, 0, 0, 1),
      Matrix(1, 2, 0, 2, 4, 0, 0, 0, 1),
      Matrix(0, 1, 0, 1, 0, 0, 1, 0, 2) }

Offsets == { <<One, F32(-1, 2)>>, <<F32(-1, 1), Half>> }

\* Coordinates get is called with while a tree is being composed.
Samples ==
    { <<Zero, Zero>>, <<One, Half>>, <<F32(2, 1), One>>,
      <<F32(-1, 1), One>>, <<F32(5, 2), Zero>>, <<Half, F32(3, 2)>> }

\* The quarters in [-1, MaxCoord].
Coords == { F32(k, 4) : k \in (-4)..(4 * MaxCoord) }

RenderSizes == { <<2, 2>>, <<3, 1>> }

\* ----------------------------------------------------------------- state

VARIABLES
    image,      \* the image tree the driver holds
    call,       \* the last call made and its arguments
    result      \* what the last get or render returned

vars == <<image, call, result>>

None == <<>>

\* The driver starts from a leaf: Uniform::new(color) or BufImage::open.
Init ==
    /\ image \in Leaves
    /\ call = [op |-> "new"]
    /\ result = None

transform(matrix) ==
    /\ Depth(image) < MaxDepth
    /\ image' = ImageTransform(image, matrix)
    /\ call' = [op |-> "transform", matrix |-> matrix]
    /\ result' = None

translate(x, y) ==
    /\ Depth(image) < MaxDepth
    /\ image' = ImageTranslate(image, x, y)
    /\ call' = [op |-> "translate", x |-> x, y |-> y]
    /\ result' = None

join(other) ==
    /\ Depth(image) < MaxDepth
    /\ image' = ImageJoin(image, other)
    /\ call' = [op |-> "join", other |-> other]
    /\ result' = None

get(x, y) ==
    /\ result' = ImageGet(image, x, y)
    /\ call' = [op |-> "get", x |-> x, y |-> y]
    /\ UNCHANGED image

render(width, height) ==
    /\ result' = ImageRender(image, width, height)
    /\ call' = [op |-> "render", width |-> width, height |-> height]
    /\ UNCHANGED image

Next ==
    \/ \E matrix \in Matrices : transform(matrix)
    \/ \E o \in Offsets : translate(o[1], o[2])
    \/ \E other \in JoinOperands : join(other)
    \/ \E p \in Samples : get(p[1], p[2])
    \/ \E s \in RenderSizes : render(s[1], s[2])

Spec == Init /\ [][Next]_vars

\* Sampling a raster alone, over the whole coordinate grid.
InitBuf ==
    /\ image \in {Raster, Tall}
    /\ call = [op |-> "new"]
    /\ result = None

NextBuf == \E x \in Coords, y \in Coords : get(x, y)

SpecBuf == InitBuf /\ [][NextBuf]_vars

\* Largest entry of the matrices invert is applied to; entries are halves.
MaxEntry == 1

Entries == { F32(k, 2) : k \in (-2)..(2 * MaxEntry) }

InvertInputs ==
    { << <<a, b, c>>, <<d, e, f>>, r >> :
        a \in Entries, b \in Entries, d \in Entries, e \in Entries,
        c \in {Zero, One}, f \in {Zero, One},
        r \in { <<Zero, Zero, One>>, <<One, Zero, F32(2, 1)>> } }

\* invert applied to a matrix, then to its own result.
InitInvert ==
    /\ image = Raster
    /\ \E m \in InvertInputs : call = [op |-> "invert", matrix |-> m, times |-> 0]
    /\ result = None

InvertStep ==
    /\ call.op = "invert"
    /\ call.times < 2
    /\ result' = invert(IF call.times = 0 THEN call.matrix ELSE result)
    /\ call' = [call EXCEPT !.times = call.times + 1]
    /\ UNCHANGED image

NextInvert == InvertStep

SpecInvert == InitInvert /\ [][NextInvert]_vars

\* ------------------------------------------------- vocabulary of the claims

Channels(px) == <<px.r, px.g, px.b, px.a>>

\* A pixel a get returned normally, every channel a finite number.
Defined(px) ==
    /\ px # Panic
    /\ \A c \in 1..4 : ~IsNaN(Channels(px)[c])

MatrixFinite(matrix) == \A i \in 0..2, j \in 0..2 : ~IsNaN(At(matrix, i, j))

\* The rows (columns) left when row (column) i of a 3 x 3 matrix is deleted.
Others(i) == IF i = 0 THEN <<1, 2>> ELSE IF i = 1 THEN <<0, 2>> ELSE <<0, 1>>

\* Cofactor (i, j): the signed 2 x 2 minor.
Cofactor(matrix, i, j) ==
    LET r == Others(i)
        c == Others(j)
        minor == Sub(Mul(At(matrix, r[1], c[1]), At(matrix, r[2], c[2])),
                     Mul(At(matrix, r[1], c[2]), At(matrix, r[2], c[1])))
    IN  IF (i + j) % 2 = 0 THEN minor ELSE Sub(Zero, minor)

\* Determinant by expansion along the first column.
Det3(matrix) ==
    Add(Add(Mul(At(matrix, 0, 0), Cofactor(matrix, 0, 0)),
            Mul(At(matrix, 1, 0), Cofactor(matrix, 1, 0))),
        Mul(At(matrix, 2, 0), Cofactor(matrix, 2, 0)))

\* Row i of matrix times the column vector v.
RowDot(matrix, i, v) ==
    Add(Add(Mul(At(matrix, i, 0), v[1]), Mul(At(matrix, i, 1), v[2])),
        Mul(At(matrix, i, 2), v[3]))

MatVec(matrix, v) ==
    <<RowDot(matrix, 0, v), RowDot(matrix, 1, v), RowDot(matrix, 2, v)>>

\* n is the integer nearest to p, a half going away from zero.
Nearest(p, n) ==
    LET d == Abs(2 * p[1] - 2 * n * p[2])
    IN  \/ d < p[2]
        \/ d = p[2] /\ Abs(n) * p[2] > Abs(p[1])

\* The pixel stored in cell (n, m) of a raster, channels as byte / 255.
Stored(img, n, m) ==
    LET byte(c) == img.data[(m * img.width + n) * 4 + c]
    IN  Pixel(F32(byte(1), 255), F32(byte(2), 255),
              F32(byte(3), 255), F32(byte(4), 255))

\* v * 255 rounded to the nearest integer.
NearestByte(v) == CHOOSE n \in 0..255 : Nearest(Mul(v, F32(255, 1)), n)

IsGetOnJoin == call.op = "get" /\ image.kind = "Join"

Bottom == ImageGet(image.image1, call.x, call.y)

Top == ImageGet(image.image2, call.x, call.y)

\* ---------------------------------------------------------------- claims

\* C1: a Transform built with a zero-determinant matrix returns alpha 0 from
\* get at every coordinate, whatever the wrapped child.
C1_SingularTransformIsTransparent ==
    (call.op = "transform" /\ Det3(call.matrix) = Zero)
        => \A p \in Samples : ImageGet(image, p[1], p[2]).a = Zero

\* C2 as stated: where the top pixel has alpha 0, Join's pixel is the bottom
\* pixel in all four channels, also when the bottom pixel has alpha 0 and
\* non-zero colour.
C2_TransparentTopGivesBottom ==
    (IsGetOnJoin /\ Top.a = Zero) => result = Bottom

\* C2 amended: where the top pixel has alpha 0, Join's pixel has the bottom
\* pixel's alpha; it is the bottom pixel when that alpha is not 0 and
\* transparent black (0,0,0,0) when it is 0, whatever the bottom's colour.
C2_TransparentTopGivesBottomUnlessClear ==
    (IsGetOnJoin /\ Top.a = Zero)
        => /\ result.a = Bottom.a
           /\ Bottom.a # Zero => result = Bottom
           /\ Bottom.a = Zero => result = TransparentBlack

C2_Witness ==
    /\ IsGetOnJoin
    /\ Top.a = Zero
    /\ Bottom = Pixel(One, Zero, Zero, Zero)
    /\ result = TransparentBlack

\* C3: join's receiver is the bottom layer and its argument the top layer:
\* where the argument's pixel has alpha 1, the joined image's pixel is the
\* argument's pixel in all four channels.
C3_OpaqueTopObscuresBottom ==
    /\ call.op = "join" =>
          \A p \in Samples :
              LET pt == ImageGet(call.other, p[1], p[2])
              IN  pt.a = One => ImageGet(image, p[1], p[2]) = pt
    /\ (IsGetOnJoin /\ Top.a = One) => result = Top

C3_Witness ==
    /\ call.op = "get"
    /\ image = ImageJoin(Uniform(Pixel(Zero, Zero, One, One)), Raster)
    /\ call.x = Zero /\ call.y = Zero
    /\ result = Pixel(One, Zero, Zero, One)

\* C4: child.transform(M) with det M # 0 samples the child at M^-1 (x, y, 1):
\* the coordinate (x2, y2) handed to the child, completed by the third row's
\* value w, is the vector M maps back to (x, y, 1); for a matrix whose last
\* row is (0, 0, 1), w is 1.
C4_TransformSamplesThroughInverse ==
    (call.op = "transform" /\ Det3(call.matrix) # Zero)
        => \A p \in Samples :
              LET q == TransformTransform(image, p[1], p[2])
                  w == RowDot(image.matrix, 2, <<p[1], p[2], One>>)
              IN  /\ MatVec(call.matrix, <<q[1], q[2], w>>) = <<p[1], p[2], One>>
                  /\ call.matrix[3] = <<Zero, Zero, One>> => w = One
                  /\ ImageGet(image, p[1], p[2]) = ImageGet(image.image, q[1], q[2])

\* Scaled by 1/2, output (1, 1/2) is the raster's cell (2, 1).
C4_Witness ==
    /\ call.op = "get"
    /\ image = ImageTransform(Raster, ScaleHalf)
    /\ call.x = One /\ call.y = Half
    /\ result = Stored(Raster, 2, 1)
    /\ result # ImageGet(Raster, One, Half)

\* C5: get returns a defined pixel for every tree and coordinate: no index
\* outside the data array, no division by a zero alpha or determinant.
C5_GetIsTotal ==
    /\ call.op = "get" => Defined(result)
    /\ call.op = "render" => result # Panic
    /\ image.kind = "Transform" => MatrixFinite(image.matrix)

\* A join over a singular transform, sampled outside the raster on top.
C5_Witness ==
    /\ IsGetOnJoin
    /\ image.image1.kind = "Transform"
    /\ image.image1.matrix = ZeroMatrix
    /\ image.image2 = Raster
    /\ call.x = F32(5, 2)
    /\ Bottom.a = Zero /\ Top.a = Zero
    /\ result = TransparentBlack

\* C6: a raster's get is transparent black when x < 0, y < 0 or the nearest
\* cell (halves away from zero) lies outside the raster, and is otherwise
\* exactly the pixel stored in that cell, row-major.
C6_BufferNearestCell ==
    (call.op = "get" /\ image.kind = "BufImage")
        => LET cells == { c \in (0..(image.width - 1)) \X (0..(image.height - 1)) :
                            Nearest(call.x, c[1]) /\ Nearest(call.y, c[2]) }
           IN  IF Lt(call.x, Zero) \/ Lt(call.y, Zero) \/ cells = {}
               THEN result = TransparentBlack
               ELSE \A c \in cells : result = Stored(image, c[1], c[2])

\* (3/2, 1/2) rounds to cell (2, 1).
C6_Witness ==
    /\ call.op = "get"
    /\ image = Raster
    /\ call.x = F32(3, 2) /\ call.y = Half
    /\ result = Stored(Raster, 2, 1)

\* C7: render returns width * height * 4 bytes, the four at (y * width + x) * 4
\* being the channels of get(x, y) times 255 rounded to the nearest integer.
C7_RenderRoundsToNearest ==
    call.op = "render"
        => /\ Len(result) = call.width * call.height * 4
           /\ \A y \in 0..(call.height - 1), x \in 0..(call.width - 1), c \in 1..4 :
                 result[(y * call.width + x) * 4 + c]
                     = NearestByte(Channels(ImageGet(image, F32(x, 1), F32(y, 1)))[c])

C9_InvertIsAnInvolution ==
    (call.op = "invert" /\ Det3(call.matrix) # Zero)
        => /\ call.times = 1 =>
                 \A i \in 0..2, j \in 0..2 :
                     Mul(At(result, i, j), Det3(call.matrix)) = Cofactor(call.matrix, j, i)
           /\ call.times = 2 => result = call.matrix

C9_Witness ==
    /\ call.op = "invert"
    /\ call.times = 2
    /\ call.matrix = << <<Half, One, One>>, <<F32(-1, 1), Half, Zero>>,
                        <<One, Zero, F32(2, 1)>> >>
    /\ result = call.matrix

\* C10: Join's pixel has alpha a = pt.a + pb.a * (1 - pt.a); it is transparent
\* black when a = 0, and otherwise each colour channel c satisfies
\* c * a = pt.c * pt.a + pb.c * pb.a * (1 - pt.a).
C10_JoinIsSourceOver ==
    IsGetOnJoin
        => LET pb == Bottom
               pt == Top
               a == Add(pt.a, Mul(pb.a, Sub(One, pt.a)))
           IN  IF a = Zero THEN result = TransparentBlack
               ELSE /\ result.a = a
                    /\ \A c \in 1..3 :
                          Mul(Channels(result)[c], a)
                              = Add(Mul(Channels(pt)[c], pt.a),
                                    Mul(Mul(Channels(pb)[c], pb.a), Sub(One, pt.a)))

\* Half-transparent green under the raster's cell (2, 1).
C10_Witness ==
    /\ IsGetOnJoin
    /\ Bottom = Pixel(Zero, One, Zero, Half)
    /\ Top = Stored(Raster, 2, 1)
    /\ result.a = F32(9, 10)
    /\ result.r = F32(8, 45)

====
